---- MODULE Spec2Model ----
(***************************************************************************)
(* A model of geoglows/streamflow.py: the response parser (_make_request), *)
(* the chart entry points (hydroviewer_plot ... flow_duration_curve_plot), *)
(* the return-period band builder (__rperiod_shapes) and the exceedance    *)
(* table builder (probabilities_table).                                    *)
(*                                                                         *)
(* The library keeps no state between calls: every entry point is a        *)
(* function of its arguments.  The state of the model is one call: which   *)
(* entry point was called, with which arguments, the steps its body took   *)
(* in order, and how it ended (the value returned or the error raised).    *)
(*                                                                         *)
(* Encoding.  Flows are integers; the sampled flows are multiples of 5 so  *)
(* that 1.2 * y is an integer.  A pandas NaN is the value NaN below, and   *)
(* every comparison and arithmetic step treats it as Python does.  A       *)
(* timestamp is a number of hours since midnight of day 0.  A DataFrame is *)
(* [type |-> "DataFrame", index |-> <<...>>, cols |-> [name -> <<...>>]].  *)
(***************************************************************************)
EXTENDS Integers, Sequences, FiniteSets, TLC

VARIABLES call, args, trace, raised, returned

vars == <<call, args, trace, raised, returned>>

(***************************************************************************)
(* Bounds of the model.                                                    *)
(***************************************************************************)
MaxRows == 2
MaxFlow == 3
MaxTime == 3

MaxDay == 1

(***************************************************************************)
(* Python and pandas values.                                               *)
(***************************************************************************)
NaN == -1
None == [t |-> "None"]
NoValue == [t |-> "NoValue"]

Flows == {10 * k - 5 : k \in 1..MaxFlow}
Times == 0..MaxTime
ThresholdValues == {12, 15, 20, 30}

IsNaN(x) == x = NaN

\* Python's x > y on floats: False whenever either side is NaN.
Gt(x, y) == ~IsNaN(x) /\ ~IsNaN(y) /\ x > y

\* Python's builtin max over a non-empty iterable keeps the first item and
\* replaces it by each later item that compares greater.  No item compares
\* greater than a NaN and a NaN compares greater than nothing: the result is
\* NaN when the first item is NaN, and the largest number otherwise.
PyMax(s) ==
    IF IsNaN(s[1]) THEN NaN
    ELSE CHOOSE m \in {s[i] : i \in 1..Len(s)} :
            /\ ~IsNaN(m)
            /\ \A i \in 1..Len(s) : ~Gt(s[i], m)

\* 1.2 * y
Headroom(y) == IF IsNaN(y) THEN NaN ELSE (12 * y) \div 10

\* bool(x) of a keyword argument: None, 0 and '' are false.
Truthy(x) ==
    CASE x.t = "None" -> FALSE
      [] x.t = "int" -> x.v # 0
      [] x.t = "str" -> x.v # ""

IsDataFrame(x) == x.type = "DataFrame"

HasCol(df, c) == c \in DOMAIN df.cols

\* How a call ends: NoError, or the exception raised.
NoError == [type |-> "none"]
ValueError(msg) == [type |-> "ValueError", msg |-> msg]
KeyError(key) == [type |-> "KeyError", key |-> key]
IndexError == [type |-> "IndexError"]
TypeError == [type |-> "TypeError"]
AttributeError == [type |-> "AttributeError"]

\* df[c].dropna(axis=0).tolist()
RECURSIVE DropNa(_)
DropNa(s) ==
    IF s = <<>> THEN <<>>
    ELSE IF IsNaN(Head(s)) THEN DropNa(Tail(s))
    ELSE <<Head(s)>> \o DropNa(Tail(s))

\* df[c].dropna(axis=0).index.tolist()
RECURSIVE DropNaIndex(_, _)
DropNaIndex(idx, s) ==
    IF s = <<>> THEN <<>>
    ELSE IF IsNaN(Head(s)) THEN DropNaIndex(Tail(idx), Tail(s))
    ELSE <<Head(idx)>> \o DropNaIndex(Tail(idx), Tail(s))

(***************************************************************************)
(* PLOTTING AUXILIARY FUNCTIONS                                            *)
(***************************************************************************)
build_title(base, reach_id, drain_area) ==
    <<base>>
    \o (IF Truthy(reach_id) THEN <<[label |-> "Stream ID: ", value |-> reach_id.v]>> ELSE <<>>)
    \o (IF Truthy(drain_area)
        THEN <<[label |-> "Upstream Drainage Area: ", value |-> drain_area.v]>> ELSE <<>>)

Shape(x0, x1, y0, y1, fillcolor) ==
    [type |-> "rect", x0 |-> x0, x1 |-> x1, y0 |-> y0, y1 |-> y1, fillcolor |-> fillcolor]

ShapesNoThird(startdate, enddate, r2, r10, r20, y_max) ==
    << Shape(startdate, enddate, r2, r10, "yellow"),
       Shape(startdate, enddate, r10, r20, "red") >>
    \o (IF Headroom(y_max) < r20 THEN <<>>
        ELSE <<Shape(startdate, enddate, r20, Headroom(y_max), "purple")>>)

rperiod_shapes(startdate, enddate, r2, r10, r20, y_max) ==
    << Shape(startdate, enddate, r2, r10, "yellow"),
       Shape(startdate, enddate, r10, r20, "red"),
       Shape(startdate, enddate, r20, Headroom(y_max), "purple") >>

(***************************************************************************)
(* One call of an entry point: its name, its arguments and its outcome.    *)
(***************************************************************************)
Outcome(tr, err, val) == [trace |-> tr, raised |-> err, returned |-> val]

Ends(out) ==
    /\ trace' = out.trace
    /\ raised' = out.raised
    /\ returned' = out.returned

Init ==
    /\ call = "none"
    /\ args = NoValue
    /\ trace = <<>>
    /\ raised = NoError
    /\ returned = NoValue

(***************************************************************************)
(* The band builder called on its own.                                     *)
(***************************************************************************)
RperiodShapes ==
    /\ call = "none"
    /\ \E startdate \in Times, enddate \in Times, y_max \in Flows :
         \E r2 \in ThresholdValues, r10 \in ThresholdValues, r20 \in ThresholdValues :
           /\ call' = "__rperiod_shapes"
           /\ args' = [startdate |-> startdate, enddate |-> enddate,
                       r2 |-> r2, r10 |-> r10, r20 |-> r20, y_max |-> y_max]
           /\ Ends(Outcome(<<"shapes">>, NoError,
                           rperiod_shapes(startdate, enddate, r2, r10, r20, y_max)))

NextBands == RperiodShapes

SpecBands == Init /\ [][NextBands]_vars

\* C1: whatever the start time, end time, thresholds and maximum, the band
\* builder returns exactly three bands [r2, r10), [r10, r20), [r20, 1.2*max):
\* each band's upper value is the next band's lower value, every band runs
\* from the start time to the end time, and the third band is emitted with
\* upper value 1.2*max also when that is below r20.
C1_ThreeContiguousBands ==
    call = "__rperiod_shapes" =>
        /\ raised = NoError
        /\ Len(returned) = 3
        /\ returned[1].y0 = args.r2 /\ returned[1].y1 = args.r10
        /\ returned[2].y0 = args.r10 /\ returned[2].y1 = args.r20
        /\ returned[3].y0 = args.r20 /\ 10 * returned[3].y1 = 12 * args.y_max
        /\ returned[1].y1 = returned[2].y0
        /\ returned[2].y1 = returned[3].y0
        /\ \A i \in 1..3 : returned[i].x0 = args.startdate /\ returned[i].x1 = args.enddate

\* The spec's example: max = 15, r2 = 12, r10 = 20, r20 = 30 gives the bands
\* [12, 20), [20, 30), [30, 18].
C1_Witness ==
    /\ call = "__rperiod_shapes"
    /\ args.y_max = 15 /\ args.r2 = 12 /\ args.r10 = 20 /\ args.r20 = 30
    /\ Len(returned) = 3
    /\ returned[3].y0 = 30 /\ returned[3].y1 = 18

(***************************************************************************)
(* FUNCTIONS THAT PROCESS THE RESULTS OF THE API INTO A PLOTLY PLOT OR     *)
(* DICTIONARY                                                              *)
(***************************************************************************)
OutFormats == {"json", "plotly", "plotly_html"}

NotDataFrameMsg == "Sorry, I only process pandas dataframes right now"
InvalidOutformatMsg == "invalid outformat specified"

STREAMFLOW == "streamflow (m^3/s)"
MEAN == "mean (m^3/s)"
MAXCOL == "max (m^3/s)"
MINCOL == "min (m^3/s)"
STDLOW == "std_dev_range_lower (m^3/s)"
STDUP == "std_dev_range_upper (m^3/s)"
HIGHRES == "high_res (m^3/s)"
RP2 == "return_period_2"
RP10 == "return_period_10"
RP20 == "return_period_20"

\* A mode check that is missing: every mode passes.
ValidateNoModeCheck(first, outformat) ==
    IF ~IsDataFrame(first)
    THEN Outcome(<<"isinstance">>, ValueError(NotDataFrameMsg), NoValue)
    ELSE Outcome(<<"isinstance", "outformat">>, NoError, NoValue)

\* "Validate a few of the important inputs": the two checks that open every
\* chart entry point, in the order of the code.
Validate(first, outformat) ==
    IF ~IsDataFrame(first)
    THEN Outcome(<<"isinstance">>, ValueError(NotDataFrameMsg), NoValue)
    ELSE IF outformat \notin OutFormats
    THEN Outcome(<<"isinstance", "outformat">>, ValueError(InvalidOutformatMsg), NoValue)
    ELSE Outcome(<<"isinstance", "outformat">>, NoError, NoValue)

\* x['name'] looks a key up in a table and in a dictionary; a string takes no
\* such subscript.
HasKeys(x) == x.type \in {"DataFrame", "dict"}

\* The first failure among the subscripts df[c] a body evaluates, in order:
\* an argument that has no keys cannot be subscripted by a column name, and
\* a table or dictionary without the column raises KeyError naming it.
RECURSIVE FirstFailure(_)
FirstFailure(accesses) ==
    IF accesses = <<>> THEN NoError
    ELSE LET df == Head(accesses)[1]
             c == Head(accesses)[2]
         IN IF ~HasKeys(df) THEN TypeError
            ELSE IF ~HasCol(df, c) THEN KeyError(c)
            ELSE FirstFailure(Tail(accesses))

\* df.index.tolist() and then dates[0], dates[-1]
IndexFailure(df) ==
    IF ~IsDataFrame(df) THEN AttributeError
    ELSE IF df.index = <<>> THEN IndexError
    ELSE NoError

Scatter(name, x, y) == [name |-> name, x |-> x, y |-> y]

Layout(title, y_top, shapes) ==
    [title |-> title, yaxis_range |-> <<0, y_top>>, shapes |-> shapes]

Figure(data, layout) == [data |-> data, layout |-> layout]

\* The end of every chart entry point: the dictionary in 'json' mode, the
\* figure in 'plotly' mode, the div of the figure in 'plotly_html' mode, and
\* a bare return otherwise.
Render(tr, outformat, plot_data, figure) ==
    IF outformat = "json" THEN Outcome(tr \o <<"data">>, NoError, plot_data)
    ELSE IF outformat = "plotly" THEN Outcome(tr \o <<"data", "figure">>, NoError, figure)
    ELSE IF outformat = "plotly_html"
    THEN Outcome(tr \o <<"data", "figure">>, NoError, [div |-> figure])
    ELSE Outcome(tr \o <<"data", "figure">>, NoError, None)

Fails(tr, err) == Outcome(tr \o <<"data">>, err, NoValue)

FirstError(errs) ==
    IF \E i \in 1..Len(errs) : errs[i] # NoError
    THEN errs[CHOOSE i \in 1..Len(errs) :
                 errs[i] # NoError /\ \A j \in 1..(i - 1) : errs[j] = NoError]
    ELSE NoError

\* min(a, b) and max(a, b) of two timestamps
Min2(a, b) == IF a <= b THEN a ELSE b

\* The timestamp of the second table alone.
SecondOnly(a, b) == b

Max2(a, b) == IF a >= b THEN a ELSE b

hydroviewer_plot(records, stats, rperiods, kwargs) ==
    LET v == Validate(records, kwargs.outformat)
        err == FirstError(<<
            IndexFailure(records), IndexFailure(stats),
            FirstFailure(<< <<stats, MEAN>>, <<records, STREAMFLOW>>, <<stats, MAXCOL>>,
                            <<stats, MINCOL>>, <<stats, STDLOW>>, <<stats, STDUP>>,
                            <<stats, HIGHRES>>, <<rperiods, RP2>>, <<rperiods, RP10>>,
                            <<rperiods, RP20>> >>) >>)
        records_dates == records.index
        dates == stats.index
        startdate == Min2(records_dates[1], dates[1])
        enddate == Max2(records_dates[Len(records_dates)], dates[Len(dates)])
        plot_data == [
            reach_id |-> kwargs.reach_id,
            drain_area |-> kwargs.drain_area,
            x_ensembles |-> DropNaIndex(stats.index, stats.cols[MEAN]),
            x_hires |-> DropNaIndex(stats.index, stats.cols[MEAN]),
            x_records |-> records_dates,
            recorded_flows |-> DropNa(records.cols[STREAMFLOW]),
            y_max |-> PyMax(stats.cols[MAXCOL]),
            min |-> DropNa(stats.cols[MINCOL]),
            mean |-> DropNa(stats.cols[MEAN]),
            max |-> DropNa(stats.cols[MAXCOL]),
            stdlow |-> DropNa(stats.cols[STDLOW]),
            stdup |-> DropNa(stats.cols[STDUP]),
            hires |-> DropNa(stats.cols[HIGHRES]),
            r2 |-> rperiods.cols[RP2],
            r10 |-> rperiods.cols[RP10],
            r20 |-> rperiods.cols[RP20] ]
        figure == Figure(
            << Scatter("1st day forecasted flows", plot_data.x_records, plot_data.recorded_flows),
               Scatter("Min", plot_data.x_ensembles, plot_data.min),
               Scatter("Std. Dev. Lower", plot_data.x_ensembles, plot_data.stdlow),
               Scatter("Std. Dev. Upper", plot_data.x_ensembles, plot_data.stdup),
               Scatter("Max", plot_data.x_ensembles, plot_data.max),
               Scatter("Mean", plot_data.x_ensembles, plot_data.mean),
               Scatter("Higher Resolution", plot_data.x_hires, plot_data.hires) >>,
            Layout(build_title("Forecasted Streamflow", kwargs.reach_id, kwargs.drain_area),
                   Headroom(plot_data.y_max),
                   rperiod_shapes(startdate, enddate, plot_data.r2, plot_data.r10,
                                  plot_data.r20, plot_data.y_max)))
    IN IF v.raised # NoError THEN v
       ELSE IF err # NoError THEN Fails(v.trace, err)
       ELSE Render(v.trace, kwargs.outformat, plot_data, figure)

forecast_plot(stats, rperiods, kwargs) ==
    LET v == Validate(stats, kwargs.outformat)
        err == FirstError(<<
            IndexFailure(stats),
            FirstFailure(<< <<stats, MEAN>>, <<stats, MAXCOL>>, <<stats, MINCOL>>,
                            <<stats, STDLOW>>, <<stats, STDUP>>, <<stats, HIGHRES>>,
                            <<rperiods, RP2>>, <<rperiods, RP10>>, <<rperiods, RP20>> >>) >>)
        dates == stats.index
        startdate == dates[1]
        enddate == dates[Len(dates)]
        plot_data == [
            reach_id |-> kwargs.reach_id,
            drain_area |-> kwargs.drain_area,
            x_ensembles |-> DropNaIndex(stats.index, stats.cols[MEAN]),
            x_hires |-> DropNaIndex(stats.index, stats.cols[MEAN]),
            y_max |-> PyMax(stats.cols[MAXCOL]),
            min |-> DropNa(stats.cols[MINCOL]),
            mean |-> DropNa(stats.cols[MEAN]),
            max |-> DropNa(stats.cols[MAXCOL]),
            stdlow |-> DropNa(stats.cols[STDLOW]),
            stdup |-> DropNa(stats.cols[STDUP]),
            hires |-> DropNa(stats.cols[HIGHRES]),
            r2 |-> rperiods.cols[RP2],
            r10 |-> rperiods.cols[RP10],
            r20 |-> rperiods.cols[RP20] ]
        figure == Figure(
            << Scatter("Min", plot_data.x_ensembles, plot_data.min),
               Scatter("Std. Dev. Lower", plot_data.x_ensembles, plot_data.stdlow),
               Scatter("Std. Dev. Upper", plot_data.x_ensembles, plot_data.stdup),
               Scatter("Max", plot_data.x_ensembles, plot_data.max),
               Scatter("Mean", plot_data.x_ensembles, plot_data.mean),
               Scatter("Higher Resolution", plot_data.x_hires, plot_data.hires) >>,
            Layout(build_title("Forecasted Streamflow", kwargs.reach_id, kwargs.drain_area),
                   Headroom(plot_data.y_max),
                   rperiod_shapes(startdate, enddate, plot_data.r2, plot_data.r10,
                                  plot_data.r20, plot_data.y_max)))
    IN IF v.raised # NoError THEN v
       ELSE IF err # NoError THEN Fails(v.trace, err)
       ELSE Render(v.trace, kwargs.outformat, plot_data, figure)

record_plot(records, rperiods, kwargs) ==
    LET v == Validate(records, kwargs.outformat)
        err == FirstError(<<
            IndexFailure(records),
            FirstFailure(<< <<records, STREAMFLOW>>, <<rperiods, RP2>>, <<rperiods, RP10>>,
                            <<rperiods, RP20>> >>) >>)
        dates == records.index
        startdate == dates[1]
        enddate == dates[Len(dates)]
        plot_data == [
            reach_id |-> kwargs.reach_id,
            drain_area |-> kwargs.drain_area,
            x_values |-> dates,
            recorded_flows |-> DropNa(records.cols[STREAMFLOW]),
            y_max |-> PyMax(records.cols[STREAMFLOW]),
            r2 |-> rperiods.cols[RP2],
            r10 |-> rperiods.cols[RP10],
            r20 |-> rperiods.cols[RP20] ]
        figure == Figure(
            << Scatter("1st day forecasted flows", plot_data.x_values, plot_data.recorded_flows) >>,
            Layout(build_title("Previously Forecasted Streamflow", kwargs.reach_id, kwargs.drain_area),
                   Headroom(plot_data.y_max),
                   rperiod_shapes(startdate, enddate, plot_data.r2, plot_data.r10,
                                  plot_data.r20, plot_data.y_max)))
    IN IF v.raised # NoError THEN v
       ELSE IF err # NoError THEN Fails(v.trace, err)
       ELSE Render(v.trace, kwargs.outformat, plot_data, figure)


(***************************************************************************)
(* The ensembles view.  The name of an ensemble column is a tuple of its   *)
(* characters, so that the slice ensemble[9:11] is computed as in the code.*)
(***************************************************************************)
DigitChars == <<"0", "1", "2", "3", "4", "5", "6", "7", "8", "9">>

IsDigit(ch) == \E d \in 1..10 : DigitChars[d] = ch

DigitValue(ch) == (CHOOSE d \in 1..10 : DigitChars[d] = ch) - 1

\* 'ensemble_%02d (m^3/s)'
EnsembleName(i) ==
    <<"e", "n", "s", "e", "m", "b", "l", "e", "_">>
    \o <<DigitChars[(i \div 10) + 1], DigitChars[(i % 10) + 1]>>
    \o <<" ", "(", "m", "^", "3", "/", "s", ")">>

\* name[10:11]: the second digit of the index alone.
SliceOneDigit(name) ==
    SubSeq(name, 11, IF Len(name) < 11 THEN Len(name) ELSE 11)

\* name[9:11]: the characters at the (0-based) positions 9 and 10 that exist.
Slice9to11(name) ==
    SubSeq(name, 10, IF Len(name) < 11 THEN Len(name) ELSE 11)

\* int(text): surrounding blanks are dropped and what is left must be digits.
PyInt(text) ==
    LET body == SelectSeq(text, LAMBDA ch : ch # " ")
        RECURSIVE Value(_, _)
        Value(t, acc) == IF t = <<>> THEN acc
                         ELSE Value(Tail(t), 10 * acc + DigitValue(Head(t)))
    IN IF body = <<>> \/ \E i \in 1..Len(body) : ~IsDigit(body[i])
       THEN [ok |-> FALSE, v |-> 0]
       ELSE [ok |-> TRUE, v |-> Value(body, 0)]

NoMembers == [k \in {} |-> <<>>]

\* The loop "for ensemble in ensembles.columns": each column's values are
\* stored under the column's integer key (a later column replaces an earlier
\* one of the same key) and its maximum is appended to max_flows.  The loop
\* stops at the first column on which int() fails, the name having no integer
\* at [9:11], or max() fails, the values being all missing.
EnsembleLoop(ensembles) ==
    LET n == Len(ensembles.columns)
        key == [i \in 1..n |-> PyInt(Slice9to11(ensembles.columns[i]))]
        values == [i \in 1..n |-> DropNa(ensembles.cols[ensembles.columns[i]])]
        failing == {i \in 1..n : ~key[i].ok \/ values[i] = <<>>}
        stop == CHOOSE i \in failing : \A j \in failing : i <= j
        last(k) == CHOOSE i \in 1..n : key[i].v = k /\ \A j \in (i + 1)..n : key[j].v # k
    IN IF failing # {}
       THEN [raised |-> IF ~key[stop].ok THEN ValueError("invalid literal for int()")
                        ELSE ValueError("max() arg is an empty sequence"),
             members |-> NoMembers, max_flows |-> <<>>]
       ELSE [raised |-> NoError,
             members |-> [k \in {key[i].v : i \in 1..n} |-> values[last(k)]],
             max_flows |-> [i \in 1..n |-> PyMax(values[i])]]

ensembles_plot(ensembles, rperiods, kwargs) ==
    LET v == Validate(ensembles, kwargs.outformat)
        err == FirstError(<<
            IndexFailure(ensembles),
            FirstFailure(<< <<ensembles, EnsembleName(1)>>, <<ensembles, EnsembleName(52)>>,
                            <<rperiods, RP2>>, <<rperiods, RP10>>, <<rperiods, RP20>> >>) >>)
        dates == ensembles.index
        startdate == dates[1]
        enddate == dates[Len(dates)]
        loop == EnsembleLoop(ensembles)
        plot_data == [
            reach_id |-> kwargs.reach_id,
            drain_area |-> kwargs.drain_area,
            x_1_51 |-> DropNaIndex(ensembles.index, ensembles.cols[EnsembleName(1)]),
            x_52 |-> DropNaIndex(ensembles.index, ensembles.cols[EnsembleName(52)]),
            r2 |-> rperiods.cols[RP2],
            r10 |-> rperiods.cols[RP10],
            r20 |-> rperiods.cols[RP20],
            members |-> loop.members,
            y_max |-> PyMax(loop.max_flows) ]
        wanted == <<52>> \o [i \in 1..51 |-> i]
        absent == {j \in 1..52 : wanted[j] \notin DOMAIN loop.members}
        figure == Figure(
            <<Scatter("High Resolution", plot_data.x_52, plot_data.members[52])>>
            \o [i \in 1..51 |-> Scatter(<<"Ensemble ", i>>, plot_data.x_1_51, plot_data.members[i])],
            Layout(build_title("Ensemble Predicted Streamflow", kwargs.reach_id, kwargs.drain_area),
                   Headroom(plot_data.y_max),
                   rperiod_shapes(startdate, enddate, plot_data.r2, plot_data.r10,
                                  plot_data.r20, plot_data.y_max)))
    IN IF v.raised # NoError THEN v
       ELSE IF err # NoError THEN Fails(v.trace, err)
       ELSE IF loop.raised # NoError THEN Fails(v.trace, loop.raised)
       ELSE IF kwargs.outformat # "json" /\ absent # {}
       THEN Outcome(v.trace \o <<"data", "figure">>,
                    [type |-> "KeyError",
                     member |-> wanted[CHOOSE j \in absent : \A k \in absent : j <= k]],
                    NoValue)
       ELSE Render(v.trace, kwargs.outformat, plot_data, figure)

historical_plot(hist, rperiods, kwargs) ==
    LET v == Validate(hist, kwargs.outformat)
        err == FirstError(<<
            IndexFailure(hist),
            FirstFailure(<< <<hist, STREAMFLOW>>, <<rperiods, RP2>>, <<rperiods, RP10>>,
                            <<rperiods, RP20>> >>) >>)
        dates == hist.index
        startdate == dates[1]
        enddate == dates[Len(dates)]
        plot_data == [
            reach_id |-> kwargs.reach_id,
            drain_area |-> kwargs.drain_area,
            x_datetime |-> dates,
            y_flow |-> hist.cols[STREAMFLOW],
            y_max |-> PyMax(hist.cols[STREAMFLOW]),
            r2 |-> rperiods.cols[RP2],
            r10 |-> rperiods.cols[RP10],
            r20 |-> rperiods.cols[RP20] ]
        figure == Figure(
            << Scatter("", plot_data.x_datetime, plot_data.y_flow) >>,
            Layout(build_title("Historic Streamflow Simulation", kwargs.reach_id, kwargs.drain_area),
                   Headroom(plot_data.y_max),
                   rperiod_shapes(startdate, enddate, plot_data.r2, plot_data.r10,
                                  plot_data.r20, plot_data.y_max)))
    IN IF v.raised # NoError THEN v
       ELSE IF err # NoError THEN Fails(v.trace, err)
       ELSE Render(v.trace, kwargs.outformat, plot_data, figure)

\* Every extra positional argument is accepted and dropped.
TakesAnyPositional(extra, out) == out

\* def seasonal_plot(seasonal, **kwargs), def flow_duration_curve_plot(hist,
\* **kwargs): one positional parameter.  A call with a second positional
\* argument raises TypeError before the body runs; a keyword the body does
\* not read stays in kwargs.
TakesOnePositional(extra, out) ==
    IF extra # <<>>
    THEN Outcome(<<>>,
                 [type |-> "TypeError",
                  msg |-> "takes 1 positional argument but 2 were given"],
                 NoValue)
    ELSE out

MAX_FLOW == "max_flow"
MIN_FLOW == "min_flow"

seasonal_plot(seasonal, kwargs) ==
    LET v == Validate(seasonal, kwargs.outformat)
        err == FirstFailure(<< <<seasonal, STREAMFLOW>>, <<seasonal, MAX_FLOW>>,
                               <<seasonal, MIN_FLOW>> >>)
        plot_data == [
            reach_id |-> kwargs.reach_id,
            drain_area |-> kwargs.drain_area,
            day_number |-> seasonal.index,
            average_flow |-> seasonal.cols[STREAMFLOW],
            max_flow |-> seasonal.cols[MAX_FLOW],
            min_flow |-> seasonal.cols[MIN_FLOW] ]
        figure == Figure(
            << Scatter("Maximum Daily Flow", plot_data.day_number, plot_data.max_flow),
               Scatter("Average Daily Flow", plot_data.day_number, plot_data.average_flow),
               Scatter("Minimum Daily Flow", plot_data.day_number, plot_data.min_flow) >>,
            Layout(build_title("Daily Average Streamflow (Historic Simulation)",
                               kwargs.reach_id, kwargs.drain_area),
                   Headroom(PyMax(plot_data.max_flow)),
                   <<>>))
    IN IF v.raised # NoError THEN v
       ELSE IF err # NoError THEN Fails(v.trace, err)
       ELSE IF kwargs.outformat # "json" /\ plot_data.max_flow = <<>>
       THEN Outcome(v.trace \o <<"data", "figure">>,
                    ValueError("max() arg is an empty sequence"), NoValue)
       ELSE Render(v.trace, kwargs.outformat, plot_data, figure)


(***************************************************************************)
(* The flow-duration view.  A probability is an exact fraction             *)
(* [num |-> a, den |-> b]; average ranks are halves, so both are doubled.  *)
(***************************************************************************)
\* sort_values(ascending=False): descending, missing values last.
RECURSIVE InsertDesc(_, _)
InsertDesc(x, s) ==
    IF s = <<>> THEN <<x>>
    ELSE IF IsNaN(Head(s)) \/ (~IsNaN(x) /\ x > Head(s)) THEN <<x>> \o s
    ELSE <<Head(s)>> \o InsertDesc(x, Tail(s))

RECURSIVE SortDesc(_)
SortDesc(s) == IF s = <<>> THEN <<>> ELSE InsertDesc(Head(s), SortDesc(Tail(s)))

\* Twice scipy.stats.rankdata(a, method='average')[i]: ranks count from 1 at
\* the smallest value and tied values share the mean of their ranks.
TwiceRank(a, i) ==
    LET less == Cardinality({j \in 1..Len(a) : a[j] < a[i]})
        equal == Cardinality({j \in 1..Len(a) : a[j] = a[i]})
    IN 2 * less + equal + 1

flow_duration_curve_plot(hist, kwargs) ==
    LET v == Validate(hist, kwargs.outformat)
        err == FirstError(<<
            FirstFailure(<< <<hist, STREAMFLOW>> >>),
            IF IsDataFrame(hist) /\ hist.index = <<>> THEN IndexError ELSE NoError >>)
        sorted_hist == SortDesc(hist.cols[STREAMFLOW])
        n == Len(sorted_hist)
        prob == [i \in 1..n |->
                    [num |-> 2 * Len(hist.index) - TwiceRank(sorted_hist, i),
                     den |-> 2 * (n + 1)]]
        plot_data == [
            reach_id |-> kwargs.reach_id,
            drain_area |-> kwargs.drain_area,
            x_probability |-> prob,
            y_flow |-> sorted_hist,
            y_max |-> sorted_hist[1] ]
        figure == Figure(
            << Scatter("", plot_data.x_probability, plot_data.y_flow) >>,
            Layout(build_title("Flow Duration Curve", kwargs.reach_id, kwargs.drain_area),
                   Headroom(plot_data.y_max),
                   <<>>))
    IN IF v.raised # NoError THEN v
       ELSE IF err # NoError THEN Fails(v.trace, err)
       ELSE Render(v.trace, kwargs.outformat, plot_data, figure)


(***************************************************************************)
(* The tables and keyword arguments the chart entry points are called on.  *)
(* A table has 1..MaxRows rows and the index 0, 1, ... (hours).  Its first *)
(* row is complete; in the later rows every column has missing values in   *)
(* rows of its own.                                                        *)
(***************************************************************************)
Table(index, cols) == [type |-> "DataFrame", index |-> index, cols |-> cols]

NotATable == [type |-> "str"]

HourIndex(n) == [i \in 1..n |-> i - 1]

Series(S, n) == {s \in [1..n -> S \cup {NaN}] : ~IsNaN(s[1])}

TopFlow == CHOOSE f \in Flows : \A g \in Flows : g <= f

RecordsTables ==
    UNION { { Table(HourIndex(n), STREAMFLOW :> s) : s \in Series(Flows, n) } : n \in 1..MaxRows }

SparseRecordsTables ==
    UNION { { Table(HourIndex(n), STREAMFLOW :> s) : s \in Series({TopFlow}, n) } :
            n \in 1..MaxRows }

StatsTable(n, mean, max, min, hires) ==
    Table(HourIndex(n),
          (MEAN :> mean) @@ (MAXCOL :> max) @@ (MINCOL :> min)
          @@ (STDLOW :> [i \in 1..n |-> IF IsNaN(mean[i]) THEN NaN ELSE 5])
          @@ (STDUP :> [i \in 1..n |-> IF IsNaN(mean[i]) THEN NaN ELSE 15])
          @@ (HIGHRES :> hires))

\* The minimum is missing in the rows where the maximum is.
StatsTablesOver(HiresFlows) ==
    UNION { { StatsTable(n, mean, max, [i \in 1..n |-> IF IsNaN(max[i]) THEN NaN ELSE 5],
                         hires) :
                mean \in Series({5}, n), max \in Series({15}, n),
                hires \in Series(HiresFlows, n) } :
            n \in 1..MaxRows }

StatsTables == StatsTablesOver(Flows)

SparseStatsTables == StatsTablesOver({TopFlow})

\* The return periods as the parser returns them: a row per stream, indexed
\* by rivid, with the named columns.
RperiodsTable(r2, r10, r20) ==
    Table(<<"rivid">>, (RP20 :> <<r20>>) @@ (RP10 :> <<r10>>) @@ (RP2 :> <<r2>>))

RperiodsTables == { RperiodsTable(12, 20, 30), RperiodsTable(30, 12, 20) }

EnsemblesTable(n, first, others, highres) ==
    [type |-> "DataFrame",
     index |-> HourIndex(n),
     columns |-> [i \in 1..52 |-> EnsembleName(i)],
     cols |-> [name \in {EnsembleName(i) : i \in 1..52} |->
                 IF name = EnsembleName(1) THEN first
                 ELSE IF name = EnsembleName(52) THEN highres
                 ELSE others]]

EnsemblesTables ==
    UNION { { EnsemblesTable(n, first, others, highres) :
                first \in Series({5}, n), others \in Series({15}, n),
                highres \in Series({TopFlow}, n) } :
            n \in 1..MaxRows }

\* A historic simulation has no missing values.
HistTables ==
    UNION { { Table(HourIndex(n), STREAMFLOW :> s) : s \in [1..n -> Flows] } : n \in 1..MaxRows }

MonthLengths == <<31, 28, 31, 30, 31, 30, 31, 31, 30, 31, 30, 31>>

MonthNames == <<"Jan", "Feb", "Mar", "Apr", "May", "Jun",
                "Jul", "Aug", "Sep", "Oct", "Nov", "Dec">>

\* strftime('%b %d') of the j-th day (1..365) of a year that is not a leap year.
RECURSIVE MonthDay(_, _)
MonthDay(j, m) ==
    IF j <= MonthLengths[m] THEN [month |-> MonthNames[m], day |-> j]
    ELSE MonthDay(j - MonthLengths[m], m + 1)

SeasonalTables ==
    UNION { { Table([i \in 1..n |-> MonthDay(i, 1)],
                    (STREAMFLOW :> avg) @@ (MAX_FLOW :> max) @@ (MIN_FLOW :> [i \in 1..n |-> 5])) :
                avg \in Series({15}, n), max \in Series(Flows, n) } :
            n \in 1..MaxRows }

Kwargs(reach_id, drain_area, outformat) ==
    [reach_id |-> reach_id, drain_area |-> drain_area, outformat |-> outformat]

KwargsSet ==
    { Kwargs(None, None, o) : o \in OutFormats \cup {"xml"} }
    \cup { Kwargs([t |-> "int", v |-> 7], [t |-> "str", v |-> "12 km^2"], "plotly"),
           Kwargs([t |-> "int", v |-> 0], [t |-> "str", v |-> ""], "plotly") }

\* The keyword arguments with a return periods table under 'rperiods', a
\* keyword that no chart entry point reads.
KwargsWithRperiods ==
    { [reach_id |-> k.reach_id, drain_area |-> k.drain_area, outformat |-> k.outformat,
       rperiods |-> RperiodsTable(12, 20, 30)] : k \in KwargsSet }

\* Table df without its column c.
Without(df, c) ==
    [df EXCEPT !.cols = [name \in DOMAIN df.cols \ {c} |-> df.cols[name]]]

\* Ensembles table df without the column of member i.
WithoutMember(df, i) ==
    [Without(df, EnsembleName(i)) EXCEPT
        !.columns = SelectSeq(df.columns, LAMBDA name : name # EnsembleName(i))]

\* Tables of one row that lack a column the views read.
IncompleteRecordsTables == { Without(Table(HourIndex(1), STREAMFLOW :> <<TopFlow>>), STREAMFLOW) }

IncompleteStatsTables ==
    { Without(StatsTable(1, <<5>>, <<15>>, <<5>>, <<TopFlow>>), c) : c \in {MEAN, HIGHRES} }

IncompleteEnsemblesTables ==
    { WithoutMember(EnsemblesTable(1, <<5>>, <<15>>, <<TopFlow>>), i) : i \in {1, 17, 52} }

IncompleteSeasonalTables == { Without(t, MAX_FLOW) : t \in {s \in SeasonalTables : Len(s.index) = 1} }

\* What is passed for the return periods besides the tables: a table that
\* lacks a column, a string, and a dictionary with the three keys.
RperiodsDict == [type |-> "dict", cols |-> RperiodsTable(12, 20, 30).cols]

OtherRperiods == { Without(RperiodsTable(12, 20, 30), RP10), NotATable, RperiodsDict }

\* What follows the first positional argument of a call of a view that has
\* no return periods parameter: nothing, or a return periods table.
ExtraPositional == { <<>>, <<RperiodsTable(12, 20, 30)>> }

(***************************************************************************)
(* The chart entry points, each called once on arguments of these sets.    *)
(***************************************************************************)
\* Table df with every timestamp k hours later.
Shifted(df, k) == [df EXCEPT !.index = [i \in 1..Len(df.index) |-> df.index[i] + k]]

\* Records and statistics that begin MaxTime hours after hour 0.
LaterRecordsTables ==
    { Shifted(Table(HourIndex(n), STREAMFLOW :> [i \in 1..n |-> TopFlow]), MaxTime) :
        n \in 1..MaxRows }

LaterStatsTables ==
    { Shifted(StatsTable(n, [i \in 1..n |-> 5], [i \in 1..n |-> 15], [i \in 1..n |-> 5],
                         [i \in 1..n |-> TopFlow]), MaxTime) :
        n \in 1..MaxRows }

HydroviewerPlot ==
    /\ call = "none"
    /\ \E records \in SparseRecordsTables \cup LaterRecordsTables
                       \cup IncompleteRecordsTables \cup {NotATable},
          stats \in SparseStatsTables \cup LaterStatsTables
                     \cup IncompleteStatsTables \cup {NotATable},
          rperiods \in RperiodsTables \cup OtherRperiods, kwargs \in KwargsSet :
         /\ call' = "hydroviewer_plot"
         /\ args' = [records |-> records, stats |-> stats, rperiods |-> rperiods,
                     kwargs |-> kwargs]
         /\ Ends(hydroviewer_plot(records, stats, rperiods, kwargs))

ForecastPlot ==
    /\ call = "none"
    /\ \E stats \in StatsTables \cup IncompleteStatsTables \cup {NotATable},
          rperiods \in RperiodsTables \cup OtherRperiods, kwargs \in KwargsSet :
         /\ call' = "forecast_plot"
         /\ args' = [stats |-> stats, rperiods |-> rperiods, kwargs |-> kwargs]
         /\ Ends(forecast_plot(stats, rperiods, kwargs))

RecordPlot ==
    /\ call = "none"
    /\ \E records \in RecordsTables \cup IncompleteRecordsTables \cup {NotATable},
          rperiods \in RperiodsTables \cup OtherRperiods, kwargs \in KwargsSet :
         /\ call' = "record_plot"
         /\ args' = [records |-> records, rperiods |-> rperiods, kwargs |-> kwargs]
         /\ Ends(record_plot(records, rperiods, kwargs))

EnsemblesPlot ==
    /\ call = "none"
    /\ \E ensembles \in EnsemblesTables \cup IncompleteEnsemblesTables \cup {NotATable},
          rperiods \in RperiodsTables \cup OtherRperiods, kwargs \in KwargsSet :
         /\ call' = "ensembles_plot"
         /\ args' = [ensembles |-> ensembles, rperiods |-> rperiods, kwargs |-> kwargs]
         /\ Ends(ensembles_plot(ensembles, rperiods, kwargs))

HistoricalPlot ==
    /\ call = "none"
    /\ \E hist \in HistTables \cup IncompleteRecordsTables \cup {NotATable},
          rperiods \in RperiodsTables \cup OtherRperiods, kwargs \in KwargsSet :
         /\ call' = "historical_plot"
         /\ args' = [hist |-> hist, rperiods |-> rperiods, kwargs |-> kwargs]
         /\ Ends(historical_plot(hist, rperiods, kwargs))

SeasonalPlot ==
    /\ call = "none"
    /\ \E seasonal \in SeasonalTables \cup IncompleteSeasonalTables \cup {NotATable},
          kwargs \in KwargsSet \cup KwargsWithRperiods, extra \in ExtraPositional :
         /\ call' = "seasonal_plot"
         /\ args' = [seasonal |-> seasonal, extra |-> extra, kwargs |-> kwargs]
         /\ Ends(TakesOnePositional(extra, seasonal_plot(seasonal, kwargs)))

FlowDurationCurvePlot ==
    /\ call = "none"
    /\ \E hist \in HistTables \cup IncompleteRecordsTables \cup {NotATable},
          kwargs \in KwargsSet \cup KwargsWithRperiods, extra \in ExtraPositional :
         /\ call' = "flow_duration_curve_plot"
         /\ args' = [hist |-> hist, extra |-> extra, kwargs |-> kwargs]
         /\ Ends(TakesOnePositional(extra, flow_duration_curve_plot(hist, kwargs)))

NextChart ==
    \/ HydroviewerPlot
    \/ ForecastPlot
    \/ RecordPlot
    \/ EnsemblesPlot
    \/ HistoricalPlot
    \/ SeasonalPlot
    \/ FlowDurationCurvePlot

SpecChart == Init /\ [][NextChart]_vars


(***************************************************************************)
(* probabilities_table.  A timestamp string 'YYYY-mm-dd HH:MM:00' is the   *)
(* record [d |-> day, h |-> hour, m |-> minute]; a datetime is a number of *)
(* hours, day 0 being Jan 01.  The value returned is the context rendered  *)
(* by the template: the day labels and the three lists of percentages.     *)
(***************************************************************************)
DATETIME == "datetime"

TotalMembers == 52

\* datetime.datetime.strptime(text, "%Y-%m-%d %H:00:00")
Strptime(text) ==
    IF text.m # 0 THEN [ok |-> FALSE, t |-> 0] ELSE [ok |-> TRUE, t |-> 24 * text.d + text.h]

\* strftime('%b %d')
DayLabel(t) == MonthDay((t \div 24) + 1, 1)

\* rperiods.iloc[row][0]
ILocFails(df, row) == ~IsDataFrame(df) \/ row + 1 > Len(df.index)

ILoc(df, row) == df.cols[df.columns[1]][row + 1]

\* round(num / den) for num >= 0 and den > 0: to the nearest integer, and to
\* the even one of the two when num / den is halfway between them.
PyRound(num, den) ==
    LET q == num \div den
        r == num % den
    IN IF 2 * r < den THEN q
       ELSE IF 2 * r > den THEN q + 1
       ELSE IF q % 2 = 0 THEN q ELSE q + 1

\* ensembles.loc[lo:hi] on a sorted datetime index: the rows from lo to hi,
\* both ends included.
LocRows(ensembles, lo, hi) ==
    {r \in 1..Len(ensembles.index) : lo <= ensembles.index[r] /\ ensembles.index[r] <= hi}

\* any(i > rp for i in tmp[column].to_numpy())
AnyAbove(ensembles, rows, column, rp) ==
    \E r \in rows : Gt(ensembles.cols[column][r], rp)

\* Every threshold tallied on its own.
TalliesIndependent(ensembles, rows, column, rp2, rp10, rp20) ==
    << IF AnyAbove(ensembles, rows, column, rp2) THEN 1 ELSE 0,
       IF AnyAbove(ensembles, rows, column, rp10) THEN 1 ELSE 0,
       IF AnyAbove(ensembles, rows, column, rp20) THEN 1 ELSE 0 >>

\* The 10-year branch forgets the 2-year tally.
TalliesNoRollUp(ensembles, rows, column, rp2, rp10, rp20) ==
    IF AnyAbove(ensembles, rows, column, rp20) THEN <<1, 1, 1>>
    ELSE IF AnyAbove(ensembles, rows, column, rp10) THEN <<0, 1, 0>>
    ELSE IF AnyAbove(ensembles, rows, column, rp2) THEN <<1, 0, 0>>
    ELSE <<0, 0, 0>>

\* The if / elif / elif of one column: what it adds to num2, num10, num20.
Tallies(ensembles, rows, column, rp2, rp10, rp20) ==
    IF AnyAbove(ensembles, rows, column, rp20) THEN <<1, 1, 1>>
    ELSE IF AnyAbove(ensembles, rows, column, rp10) THEN <<1, 1, 0>>
    ELSE IF AnyAbove(ensembles, rows, column, rp2) THEN <<1, 0, 0>>
    ELSE <<0, 0, 0>>

\* num2, num10 or num20 (which = 1, 2, 3) after the loop over the columns.
Num(ensembles, rows, rp2, rp10, rp20, which) ==
    Cardinality({c \in 1..Len(ensembles.columns) :
                   Tallies(ensembles, rows, ensembles.columns[c], rp2, rp10, rp20)[which] = 1})

probabilities_table(stats, ensembles, rperiods) ==
    LET dates == stats.cols[DATETIME]
        start == Strptime(dates[1])
        end == Strptime(dates[Len(dates)])
        start_datetime == start.t
        span_days == (end.t - start_datetime) \div 24
        uniqueday == [i \in 1..(IF span_days + 2 > 0 THEN span_days + 2 ELSE 0) |->
                         start_datetime + 24 * (i - 1)]
        rp2 == ILoc(rperiods, 3)
        rp10 == ILoc(rperiods, 2)
        rp20 == ILoc(rperiods, 1)
        nrows == IF Len(uniqueday) > 0 THEN Len(uniqueday) - 1 ELSE 0
        tmp(i) == LocRows(ensembles, uniqueday[i], uniqueday[i + 1])
        percent(i, which) ==
            PyRound(Num(ensembles, tmp(i), rp2, rp10, rp20, which) * 100, TotalMembers)
    IN IF ~IsDataFrame(stats) THEN Outcome(<<"datetime">>, TypeError, NoValue)
       ELSE IF ~HasCol(stats, DATETIME) THEN Outcome(<<"datetime">>, KeyError(DATETIME), NoValue)
       ELSE IF dates = <<>> THEN Outcome(<<"datetime">>, IndexError, NoValue)
       ELSE IF ~start.ok \/ ~end.ok
       THEN Outcome(<<"datetime">>, ValueError("time data does not match format"), NoValue)
       ELSE IF ILocFails(rperiods, 3)
       THEN Outcome(<<"datetime", "thresholds">>, IndexError, NoValue)
       ELSE Outcome(<<"datetime", "thresholds", "rows">>, NoError,
                    [days |-> [i \in 1..nrows |-> DayLabel(uniqueday[i])],
                     r2 |-> [i \in 1..nrows |-> percent(i, 1)],
                     r10 |-> [i \in 1..nrows |-> percent(i, 2)],
                     r20 |-> [i \in 1..nrows |-> percent(i, 3)]])

(***************************************************************************)
(* The calls of probabilities_table.  The forecast runs over MaxDay + 1    *)
(* days with a row at 00:00 and a row at 12:00 of each; the statistics     *)
(* table keeps its timestamps in a 'datetime' column, or has them as its   *)
(* index the way the csv parser returns it; the thresholds table has one   *)
(* row per threshold, or the single row the csv parser returns.            *)
(***************************************************************************)
Stamp(d, h) == [d |-> d, h |-> h, m |-> 0]

Stamps == {Stamp(d, h) : d \in 0..MaxDay, h \in {0, 12}}

StampIndex == [i \in 1..(2 * (MaxDay + 1)) |-> 24 * ((i - 1) \div 2) + 12 * ((i - 1) % 2)]

DatetimeTable(dates) == Table([i \in 1..Len(dates) |-> i - 1], (DATETIME :> dates))

ProbStatsTables ==
    {DatetimeTable(<<first>>) : first \in Stamps}
    \cup {DatetimeTable(<<first, last>>) : first \in Stamps, last \in Stamps}
    \cup {DatetimeTable(<<[d |-> 0, h |-> 0, m |-> 30]>>), DatetimeTable(<<>>)}

RowsRperiodsTable(rmax, r20, r10, r2) ==
    [type |-> "DataFrame",
     index |-> <<"max", "20", "10", "2">>,
     columns |-> <<STREAMFLOW>>,
     cols |-> (STREAMFLOW :> <<rmax, r20, r10, r2>>)]

ProbRperiodsTables ==
    { RowsRperiodsTable(40, 30, 20, 12), RowsRperiodsTable(40, 35, 25, 15),
      RowsRperiodsTable(40, 20, 12, 30) }

\* A member that stays at the lowest flow but for one row.
Peak(row, flow) == [r \in 1..Len(StampIndex) |-> IF r = row THEN flow ELSE 5]

\* The first a members follow one series, the next b another, the others stay
\* at the lowest flow and the high resolution member has its first row only.
ProbEnsemblesTable(a, b, seriesA, seriesB) ==
    [type |-> "DataFrame",
     index |-> StampIndex,
     columns |-> [i \in 1..52 |-> EnsembleName(i)],
     cols |-> [name \in {EnsembleName(i) : i \in 1..52} |->
                 LET i == CHOOSE k \in 1..52 : EnsembleName(k) = name
                 IN IF i <= a THEN seriesA
                    ELSE IF i <= a + b THEN seriesB
                    ELSE IF i = 52 THEN [r \in 1..Len(StampIndex) |-> IF r = 1 THEN 5 ELSE NaN]
                    ELSE Peak(1, 5)]]

\* A table of n member columns that all follow one series.
WideEnsemblesTable(n, series) ==
    [type |-> "DataFrame",
     index |-> StampIndex,
     columns |-> [i \in 1..n |-> EnsembleName(i)],
     cols |-> [name \in {EnsembleName(i) : i \in 1..n} |-> series]]

\* Tables of one member column fewer and one more than 52.
OtherWidthEnsemblesTables ==
    { WideEnsemblesTable(n, Peak(1, 35)) : n \in {TotalMembers - 1, TotalMembers + 1} }

ProbEnsemblesTables ==
    { ProbEnsemblesTable(5, 2, Peak(rowA, 15), Peak(rowB, flowB)) :
        rowA \in 1..Len(StampIndex), rowB \in 1..Len(StampIndex), flowB \in {25, 35} }


(***************************************************************************)
(* Properties of the chart entry points.                                   *)
(***************************************************************************)
ChartCalls == {"hydroviewer_plot", "forecast_plot", "record_plot", "ensembles_plot",
               "historical_plot", "seasonal_plot", "flow_duration_curve_plot"}

\* The first positional argument of the chart call made.
FirstArgument ==
    CASE call = "hydroviewer_plot" -> args.records
      [] call = "forecast_plot" -> args.stats
      [] call = "record_plot" -> args.records
      [] call = "ensembles_plot" -> args.ensembles
      [] call = "historical_plot" -> args.hist
      [] call = "seasonal_plot" -> args.seasonal
      [] call = "flow_duration_curve_plot" -> args.hist

Present(s) == {s[i] : i \in 1..Len(s)} \ {NaN}

\* Every value plotted by the chart call made, over all its series.
PlottedValues ==
    CASE call = "hydroviewer_plot" ->
           Present(args.records.cols[STREAMFLOW])
           \cup UNION {Present(args.stats.cols[c]) :
                         c \in {MINCOL, MAXCOL, MEAN, STDLOW, STDUP, HIGHRES}}
      [] call = "forecast_plot" ->
           UNION {Present(args.stats.cols[c]) :
                    c \in {MINCOL, MAXCOL, MEAN, STDLOW, STDUP, HIGHRES}}
      [] call = "record_plot" -> Present(args.records.cols[STREAMFLOW])
      [] call = "ensembles_plot" ->
           UNION {Present(args.ensembles.cols[c]) : c \in DOMAIN args.ensembles.cols}
      [] call = "historical_plot" -> Present(args.hist.cols[STREAMFLOW])
      [] call = "seasonal_plot" ->
           UNION {Present(args.seasonal.cols[c]) : c \in {STREAMFLOW, MAX_FLOW, MIN_FLOW}}
      [] call = "flow_duration_curve_plot" -> Present(args.hist.cols[STREAMFLOW])

TrueMaximum == CHOOSE m \in PlottedValues : \A x \in PlottedValues : x <= m

Succeeded == call \in ChartCalls /\ raised = NoError

\* C2: in every chart the y-axis range is [0, 1.2 * M], M the maximum over
\* all the series plotted, and in 'json' mode the maximum re-derived from the
\* returned data is M (the seasonal dictionary, which has no y_max, gives the
\* maximum of its plotted series).
C2_AxisCoversAllSeries ==
    (Succeeded /\ PlottedValues # {}) =>
        /\ args.kwargs.outformat = "plotly" =>
              /\ returned.layout.yaxis_range[1] = 0
              /\ 10 * returned.layout.yaxis_range[2] = 12 * TrueMaximum
        /\ (args.kwargs.outformat = "json" /\ call # "seasonal_plot") =>
              returned.y_max = TrueMaximum

\* The positional arguments of the call made bind to the parameters of the
\* entry point, so that its body runs.
Binds == "extra" \notin DOMAIN args \/ args.extra = <<>>

\* C3 as stated: an invalid mode always ends in the invalid-mode error, and
\* that check is the first step of the call.
C3_ModeCheckedFirst ==
    (call \in ChartCalls /\ args.kwargs.outformat \notin OutFormats) =>
        /\ raised = ValueError(InvalidOutformatMsg)
        /\ trace[1] = "outformat"

\* C3 (amended): a call with an invalid mode fails before any data access or
\* series processing; when the first argument is a table it fails with the
\* invalid-mode error and only the type check of the first argument comes
\* before the mode check; when the first argument is no table the type error
\* is raised first (in a call whose positional arguments do not bind to the
\* parameters neither check is reached).
C3_ModeCheckedBeforeData ==
    (call \in ChartCalls /\ args.kwargs.outformat \notin OutFormats) =>
        /\ returned = NoValue
        /\ \A i \in 1..Len(trace) : trace[i] \in {"isinstance", "outformat"}
        /\ Binds =>
              IF IsDataFrame(FirstArgument)
              THEN /\ raised = ValueError(InvalidOutformatMsg)
                   /\ trace = <<"isinstance", "outformat">>
              ELSE /\ raised = ValueError(NotDataFrameMsg)
                   /\ trace = <<"isinstance">>

C3_Witness ==
    /\ call = "forecast_plot"
    /\ args.kwargs.outformat = "xml"
    /\ IsDataFrame(args.stats)
    /\ Len(args.stats.index) = MaxRows
    /\ raised = ValueError(InvalidOutformatMsg)

\* C7: in the returned dictionary every series has as many values as its own
\* time axis has timestamps.
C7_SeriesAsLongAsItsAxis ==
    (Succeeded /\ args.kwargs.outformat = "json") =>
        CASE call = "hydroviewer_plot" ->
               /\ Len(returned.recorded_flows) = Len(returned.x_records)
               /\ Len(returned.hires) = Len(returned.x_hires)
               /\ \A y \in {returned.min, returned.mean, returned.max,
                            returned.stdlow, returned.stdup} :
                     Len(y) = Len(returned.x_ensembles)
          [] call = "forecast_plot" ->
               /\ Len(returned.hires) = Len(returned.x_hires)
               /\ \A y \in {returned.min, returned.mean, returned.max,
                            returned.stdlow, returned.stdup} :
                     Len(y) = Len(returned.x_ensembles)
          [] call = "record_plot" -> Len(returned.recorded_flows) = Len(returned.x_values)
          [] call = "ensembles_plot" ->
               \A i \in DOMAIN returned.members :
                  Len(returned.members[i])
                     = Len(IF i = 52 THEN returned.x_52 ELSE returned.x_1_51)
          [] call = "historical_plot" -> Len(returned.y_flow) = Len(returned.x_datetime)
          [] call = "seasonal_plot" ->
               \A y \in {returned.average_flow, returned.max_flow, returned.min_flow} :
                  Len(y) = Len(returned.day_number)
          [] call = "flow_duration_curve_plot" ->
               Len(returned.x_probability) = Len(returned.y_flow)

\* The value of column c of table df in the row of timestamp t.
ValueAt(df, c, t) == df.cols[c][CHOOSE r \in 1..Len(df.index) : df.index[r] = t]

\* C8: a series extracted from column c is the (timestamp, value) pairs of
\* the rows where c is present: its time axis is those rows' timestamps, and
\* its k-th value is the table's value at the k-th timestamp of that axis.
PairsRowsWherePresent(df, c, axis, values) ==
    /\ axis = DropNaIndex(df.index, df.cols[c])
    /\ values = DropNa(df.cols[c])
    /\ \A k \in 1..Len(values) : k <= Len(axis) /\ ValueAt(df, c, axis[k]) = values[k]

C8_SeriesPairsRowsWherePresent ==
    (Succeeded /\ call = "forecast_plot" /\ args.kwargs.outformat = "json") =>
        /\ PairsRowsWherePresent(args.stats, MEAN, returned.x_ensembles, returned.mean)
        /\ PairsRowsWherePresent(args.stats, MINCOL, returned.x_ensembles, returned.min)
        /\ PairsRowsWherePresent(args.stats, MAXCOL, returned.x_ensembles, returned.max)
        /\ PairsRowsWherePresent(args.stats, STDLOW, returned.x_ensembles, returned.stdlow)
        /\ PairsRowsWherePresent(args.stats, STDUP, returned.x_ensembles, returned.stdup)
        /\ PairsRowsWherePresent(args.stats, HIGHRES, returned.x_hires, returned.hires)

(***************************************************************************)
(* Properties of the exceedance table.                                     *)
(***************************************************************************)
TableBuilt == call = "probabilities_table" /\ raised = NoError

\* The thresholds of the call made, by the row that holds each.
Threshold2 == args.rperiods.cols[STREAMFLOW][4]

Threshold10 == args.rperiods.cols[STREAMFLOW][3]

Threshold20 == args.rperiods.cols[STREAMFLOW][2]

\* The first timestamp of the statistics table, in hours.
FirstHour == 24 * args.stats.cols[DATETIME][1].d + args.stats.cols[DATETIME][1].h

LastHour ==
    LET dates == args.stats.cols[DATETIME]
    IN 24 * dates[Len(dates)].d + dates[Len(dates)].h

\* Member c has a value above the threshold in the sub-window of row i.
MemberExceeds(c, i, threshold) ==
    \E r \in 1..Len(args.ensembles.index) :
       /\ FirstHour + 24 * (i - 1) <= args.ensembles.index[r]
       /\ args.ensembles.index[r] <= FirstHour + 24 * i
       /\ ~IsNaN(args.ensembles.cols[c][r])
       /\ args.ensembles.cols[c][r] > threshold

\* The members of row i whose highest threshold strictly exceeded is the
\* 2-year one, the 10-year one, the 20-year one.
Only2(i) ==
    {c \in DOMAIN args.ensembles.cols :
       /\ MemberExceeds(c, i, Threshold2)
       /\ ~MemberExceeds(c, i, Threshold10)
       /\ ~MemberExceeds(c, i, Threshold20)}

Only10(i) ==
    {c \in DOMAIN args.ensembles.cols :
       MemberExceeds(c, i, Threshold10) /\ ~MemberExceeds(c, i, Threshold20)}

Over20(i) == {c \in DOMAIN args.ensembles.cols : MemberExceeds(c, i, Threshold20)}

\* q is tally * 100 / 52 rounded to the nearest integer.
IsRounded(q, tally) == 104 * q - 52 <= 200 * tally /\ 200 * tally <= 104 * q + 52

\* C4: in each sub-window a member is classified by the highest threshold
\* one of its values strictly exceeds; exceeding the 20-year threshold
\* counts toward all three tallies, the 10-year one toward the 10- and
\* 2-year tallies, the 2-year one toward the 2-year tally; each percentage
\* is round(tally * 100 / 52).
C4_ClassifiedByHighestThreshold ==
    TableBuilt =>
        \A i \in 1..Len(returned.days) :
           LET n2 == Cardinality(Only2(i))
               n10 == Cardinality(Only10(i))
               n20 == Cardinality(Over20(i))
           IN /\ IsRounded(returned.r20[i], n20)
              /\ IsRounded(returned.r10[i], n20 + n10)
              /\ IsRounded(returned.r2[i], n20 + n10 + n2)

\* The example of the claim: of 52 members 5 exceed the 2-year threshold
\* only and 2 exceed the 20-year one on the first day; the row reads 13, 4, 4.
C4_Witness ==
    /\ TableBuilt
    /\ Len(returned.days) >= 1
    /\ Cardinality(DOMAIN args.ensembles.cols) = 52
    /\ Cardinality(Only2(1)) = 5 /\ Cardinality(Only10(1)) = 0 /\ Cardinality(Over20(1)) = 2
    /\ returned.r2[1] = 13 /\ returned.r10[1] = 4 /\ returned.r20[1] = 4

\* C5: on every row the 2-year percentage is at least the 10-year one, which
\* is at least the 20-year one, whatever the order of the thresholds.
C5_PercentagesMonotonic ==
    TableBuilt =>
        \A i \in 1..Len(returned.days) :
           returned.r2[i] >= returned.r10[i] /\ returned.r10[i] >= returned.r20[i]

\* Thresholds that are not ascending, and a member over the 10-year one that
\* stays under the 2-year one.
C5_Witness ==
    /\ TableBuilt
    /\ Threshold2 > Threshold10
    /\ \E i \in 1..Len(returned.days) :
          /\ returned.r10[i] > 0
          /\ \E c \in DOMAIN args.ensembles.cols :
                MemberExceeds(c, i, Threshold10) /\ ~MemberExceeds(c, i, Threshold2)

\* C6: the table has one row per calendar day from the day of the first
\* timestamp to the day of the last one, both included, at whatever hour of
\* the day the two timestamps are.
C6_OneRowPerCalendarDay ==
    (TableBuilt /\ FirstHour <= LastHour) =>
        /\ Len(returned.days) = (LastHour \div 24) - (FirstHour \div 24) + 1
        /\ \A i \in 1..Len(returned.days) :
              returned.days[i] = MonthDay((FirstHour \div 24) + i, 1)

(***************************************************************************)
(* _make_request.  The response of the service is its text: a header and   *)
(* the rows under it, in the order the service lists them.  A timestamp of *)
(* the text is a record [d, h, m], a parsed one a number of hours.         *)
(***************************************************************************)
COMID == "comid"

RIVID == "rivid"

DAY_OF_YEAR == "day_of_year"

Methods == {"ForecastStats/", "ForecastEnsembles/", "ForecastWarnings/", "ForecastRecords/",
            "HistoricSimulation/", "SeasonalAverage/", "ReturnPeriods/"}

TimeIndexedMethods ==
    {"ForecastStats/", "ForecastEnsembles/", "ForecastRecords/", "HistoricSimulation/"}

ReturnFormats == {"csv", "json", "waterml", "request", "url", "xml"}

Text(header, rows) == [header |-> header, rows |-> rows]

HasHeader(text, name) == \E k \in 1..Len(text.header) : text.header[k] = name

\* pandas.read_csv(StringIO(data.text), index_col=name): the rows stay in the
\* order of the text.
ReadCsv(text, name) ==
    Table([i \in 1..Len(text.rows) |-> text.rows[i][name]],
          [c \in {text.header[k] : k \in 1..Len(text.header)} \ {name} |->
              [i \in 1..Len(text.rows) |-> text.rows[i][c]]])

\* pandas.to_datetime of a timestamp of the text
ToDatetime(stamp) == 24 * stamp.d + stamp.h

\* A day number parses under '%j' when it is one of 1..366.
ParsesAsDayOfYear(j) == 1 <= j /\ j <= 366

\* pandas.to_datetime(j, format='%j').strftime('%b %d'): day j of 1900, which
\* has 365 days, so that day 366 is the first day of 1901.
DayOfYearLabel(j) == IF j <= 365 THEN MonthDay(j, 1) ELSE MonthDay(j - 365, 1)

\* tmp.index = pandas.to_datetime(tmp.index + 1, format='%j').strftime('%b %d')
SeasonalIndex(tmp) ==
    [tmp EXCEPT !.index = [i \in 1..Len(tmp.index) |-> DayOfYearLabel(tmp.index[i] + 1)]]

\* tmp.index = pandas.to_datetime(tmp.index)
DatetimeIndex(tmp) ==
    [tmp EXCEPT !.index = [i \in 1..Len(tmp.index) |-> ToDatetime(tmp.index[i])]]

Get(method, params) == [op |-> "GET", method |-> method, params |-> params]

make_request(method, params, return_format, text) ==
    LET sent == <<Get(method, params)>>
    IN IF return_format = "csv"
       THEN IF method = "ForecastWarnings/"
            THEN IF HasHeader(text, COMID)
                 THEN Outcome(sent, NoError, ReadCsv(text, COMID))
                 ELSE Outcome(sent, ValueError("Index comid invalid"), NoValue)
            ELSE IF method = "ReturnPeriods/"
            THEN IF HasHeader(text, RIVID)
                 THEN Outcome(sent, NoError, ReadCsv(text, RIVID))
                 ELSE Outcome(sent, ValueError("Index rivid invalid"), NoValue)
            ELSE IF method = "SeasonalAverage/"
            THEN IF ~HasHeader(text, DAY_OF_YEAR)
                 THEN Outcome(sent, ValueError("Index day_of_year invalid"), NoValue)
                 ELSE IF \E i \in 1..Len(text.rows) :
                            ~ParsesAsDayOfYear(text.rows[i][DAY_OF_YEAR] + 1)
                 THEN Outcome(sent, ValueError("time data does not match format"), NoValue)
                 ELSE Outcome(sent, NoError, SeasonalIndex(ReadCsv(text, DAY_OF_YEAR)))
            ELSE IF HasHeader(text, DATETIME)
                 THEN Outcome(sent, NoError, DatetimeIndex(ReadCsv(text, DATETIME)))
                 ELSE Outcome(sent, ValueError("Index datetime invalid"), NoValue)
       ELSE IF return_format = "json"
       THEN Outcome(sent, NoError, [type |-> "dict", content |-> text])
       ELSE IF return_format = "waterml"
       THEN Outcome(sent, NoError, [type |-> "str", text |-> text])
       ELSE IF return_format = "request"
       THEN Outcome(sent, NoError, [type |-> "Response", text |-> text])
       ELSE Outcome(sent,
                    ValueError("Unsupported return format requested: " \o return_format),
                    NoValue)

(***************************************************************************)
(* The exceedance table on the tables of the parser and of the callers.    *)
(***************************************************************************)
ReturnPeriodsText ==
    Text(<<RIVID, RP20, RP10, RP2>>,
         <<(RIVID :> 7) @@ (RP20 :> 30) @@ (RP10 :> 20) @@ (RP2 :> 12)>>)

\* The table return_periods returns for that text in 'csv' mode: a row per
\* stream, indexed by rivid, with the named columns.
ParsedRperiodsTable ==
    make_request("ReturnPeriods/", [reach_id |-> 7, return_format |-> "csv"], "csv",
                 ReturnPeriodsText).returned

\* The text of a ForecastStats response and the table forecast_stats returns
\* for it in 'csv' mode.
StatsText(stamps) ==
    Text(<<DATETIME, MEAN, MAXCOL, MINCOL>>,
         [i \in 1..Len(stamps) |->
            (DATETIME :> stamps[i]) @@ (MEAN :> 15) @@ (MAXCOL :> 25) @@ (MINCOL :> 5)])

ParsedStatsTables ==
    { make_request("ForecastStats/", [reach_id |-> 7, return_format |-> "csv"], "csv",
                   StatsText(<<Stamp(0, 0), last>>)).returned :
        last \in {Stamp(0, 12), Stamp(MaxDay, 12)} }

ProbabilitiesTable ==
    /\ call = "none"
    /\ \E stats \in ProbStatsTables \cup ParsedStatsTables
                     \cup {StatsTable(1, <<5>>, <<15>>, <<5>>, <<5>>), NotATable},
          ensembles \in ProbEnsemblesTables \cup OtherWidthEnsemblesTables,
          rperiods \in ProbRperiodsTables \cup {ParsedRperiodsTable} :
          /\ call' = "probabilities_table"
          /\ args' = [stats |-> stats, ensembles |-> ensembles, rperiods |-> rperiods]
          /\ Ends(probabilities_table(stats, ensembles, rperiods))

NextProb == ProbabilitiesTable

SpecProb == Init /\ [][NextProb]_vars

(***************************************************************************)
(* The calls of _make_request: every product, every return format, and the *)
(* texts the service answers with, their rows in any order.                *)
(***************************************************************************)
DistinctRows(S) ==
    UNION { {s \in [1..n -> S] : \A i, j \in 1..n : i # j => s[i] # s[j]} : n \in 1..MaxRows }

TimeSeriesText(stamps) ==
    Text(<<DATETIME, STREAMFLOW>>,
         [i \in 1..Len(stamps) |-> (DATETIME :> stamps[i]) @@ (STREAMFLOW :> 15)])

TimeSeriesTexts == {TimeSeriesText(stamps) : stamps \in DistinctRows(Stamps)}

SeasonDays == {0, 1, 58, 59, 364, 365, 366}

SeasonalText(days) ==
    Text(<<DAY_OF_YEAR, STREAMFLOW, MAX_FLOW, MIN_FLOW>>,
         [i \in 1..Len(days) |->
            (DAY_OF_YEAR :> days[i]) @@ (STREAMFLOW :> 15) @@ (MAX_FLOW :> 25)
            @@ (MIN_FLOW :> 5)])

SeasonalTexts == {SeasonalText(days) : days \in DistinctRows(SeasonDays)}

WarningsText == Text(<<COMID, RP2>>, <<(COMID :> 7) @@ (RP2 :> 12)>>)

Texts == TimeSeriesTexts \cup SeasonalTexts \cup {ReturnPeriodsText, WarningsText}

MakeRequest ==
    /\ call = "none"
    /\ \E method \in Methods, return_format \in ReturnFormats, text \in Texts :
          LET params == [reach_id |-> 7, return_format |-> return_format]
          IN /\ call' = "_make_request"
             /\ args' = [method |-> method, params |-> params,
                         return_format |-> return_format, text |-> text]
             /\ Ends(make_request(method, params, return_format, text))

NextParse == MakeRequest

SpecParse == Init /\ [][NextParse]_vars

(***************************************************************************)
(* Properties of the parser.                                               *)
(***************************************************************************)
Parsed == call = "_make_request" /\ args.return_format = "csv" /\ raised = NoError

\* C9: the table parsed from a timestamp-indexed payload has an index that
\* is strictly increasing, in whatever order the payload lists its rows.
C9_IndexStrictlyIncreasing ==
    (Parsed /\ args.method \in TimeIndexedMethods) =>
        \A i, j \in 1..Len(returned.index) : i < j => returned.index[i] < returned.index[j]

\* The seasonal payload of the call made lists only days of 1..366.
DaysInRange ==
    \A i \in 1..Len(args.text.rows) :
       1 <= args.text.rows[i][DAY_OF_YEAR] /\ args.text.rows[i][DAY_OF_YEAR] <= 366

\* C10: a seasonal payload whose days of year are in 1..366 parses, and each
\* day d of it becomes the label of the d-th day of a year that is not a
\* leap year, day 1 being Jan 01.
C10_DayOfYearLabelled ==
    (/\ call = "_make_request" /\ args.return_format = "csv"
     /\ args.method = "SeasonalAverage/"
     /\ HasHeader(args.text, DAY_OF_YEAR) /\ DaysInRange) =>
        /\ raised = NoError
        /\ \A i \in 1..Len(args.text.rows) :
              args.text.rows[i][DAY_OF_YEAR] <= 365 =>
                 returned.index[i] = MonthDay(args.text.rows[i][DAY_OF_YEAR], 1)

(***************************************************************************)
(* Properties of the flow-duration view.                                   *)
(***************************************************************************)
CurveBuilt ==
    /\ call = "flow_duration_curve_plot"
    /\ raised = NoError
    /\ args.kwargs.outformat = "json"

\* Twice the rank of flow x among the flows sorted from the largest (rank 1)
\* to the smallest, tied flows sharing the average of their ranks.
TwiceDescendingRank(flows, x) ==
    2 * Cardinality({k \in 1..Len(flows) : flows[k] > x})
    + Cardinality({k \in 1..Len(flows) : flows[k] = x}) + 1

\* C11: the flows are listed in descending order, the probability of the
\* i-th is rank(i) / (N + 1) with the rank counted from the largest flow and
\* averaged over ties, every probability is strictly between 0 and 1, and
\* the probabilities never decrease along the list.
C11_ProbabilityIsRankOverNPlusOne ==
    CurveBuilt =>
        LET flows == args.hist.cols[STREAMFLOW]
            N == Len(flows)
            y == returned.y_flow
            p == returned.x_probability
        IN /\ Len(y) = N /\ Len(p) = N
           /\ \A i, j \in 1..N : i < j => y[i] >= y[j]
           /\ \A i \in 1..N :
                 /\ p[i].num * 2 * (N + 1) = TwiceDescendingRank(flows, y[i]) * p[i].den
                 /\ 0 < p[i].num /\ p[i].num < p[i].den
           /\ \A i, j \in 1..N : i < j => p[i].num * p[j].den <= p[j].num * p[i].den

(***************************************************************************)
(* Properties of the views without return periods.                         *)
(***************************************************************************)
UnbandedCalls == {"seasonal_plot", "flow_duration_curve_plot"}

\* The call made of an unbanded view passes a return periods table.
RperiodsPassed == args.extra # <<>> \/ "rperiods" \in DOMAIN args.kwargs

\* The same call without the return periods table.
PlainKwargs == Kwargs(args.kwargs.reach_id, args.kwargs.drain_area, args.kwargs.outformat)

PlainOutcome ==
    IF call = "seasonal_plot" THEN seasonal_plot(args.seasonal, PlainKwargs)
    ELSE flow_duration_curve_plot(args.hist, PlainKwargs)

\* The result of the call made has no thresholds and no bands.
NoBands ==
    CASE args.kwargs.outformat = "json" -> DOMAIN returned \cap {"r2", "r10", "r20"} = {}
      [] args.kwargs.outformat = "plotly" -> returned.layout.shapes = <<>>
      [] args.kwargs.outformat = "plotly_html" -> returned.div.layout.shapes = <<>>
      [] OTHER -> returned = None

\* C12 as stated: a return periods argument is ignored however it is passed;
\* the call ends as the call without it does, and without bands.
C12_ReturnPeriodsIgnored ==
    (call \in UnbandedCalls /\ RperiodsPassed) =>
        /\ raised = PlainOutcome.raised
        /\ returned = PlainOutcome.returned
        /\ raised = NoError => NoBands

\* C12 (amended): a result of the seasonal or the flow-duration view never
\* has thresholds or bands, in any output mode; a return periods table
\* passed by keyword is ignored, the call ending as the call without it
\* does; one passed as a second positional argument makes the call fail with
\* a TypeError before the body runs.
C12_NoBandsKeywordIgnored ==
    call \in UnbandedCalls =>
        /\ raised = NoError => NoBands
        /\ args.extra = <<>> =>
              /\ raised = PlainOutcome.raised
              /\ returned = PlainOutcome.returned
        /\ args.extra # <<>> =>
              /\ raised.type = "TypeError"
              /\ returned = NoValue
              /\ trace = <<>>

C12_Witness ==
    /\ call = "seasonal_plot"
    /\ "rperiods" \in DOMAIN args.kwargs
    /\ args.extra = <<>>
    /\ args.kwargs.outformat = "plotly"
    /\ raised = NoError
    /\ Len(returned.data) = 3
    /\ returned.layout.shapes = <<>>

(***************************************************************************)
(* Properties of the title.                                                *)
(***************************************************************************)
BaseTitle ==
    CASE call = "hydroviewer_plot" -> "Forecasted Streamflow"
      [] call = "forecast_plot" -> "Forecasted Streamflow"
      [] call = "record_plot" -> "Previously Forecasted Streamflow"
      [] call = "ensembles_plot" -> "Ensemble Predicted Streamflow"
      [] call = "historical_plot" -> "Historic Streamflow Simulation"
      [] call = "seasonal_plot" -> "Daily Average Streamflow (Historic Simulation)"
      [] call = "flow_duration_curve_plot" -> "Flow Duration Curve"

\* A keyword argument was given a value.
Given(x) == x.t # "None"

\* C13: the title is the base title, then a 'Stream ID' line exactly when a
\* stream identifier was given, then an 'Upstream Drainage Area' line exactly
\* when a drainage area was given, whatever the values given are.
C13_TitleLinesWhenGiven ==
    (Succeeded /\ args.kwargs.outformat = "plotly") =>
        LET title == returned.layout.title
            id == args.kwargs.reach_id
            area == args.kwargs.drain_area
            n == 1 + (IF Given(id) THEN 1 ELSE 0) + (IF Given(area) THEN 1 ELSE 0)
        IN /\ Len(title) = n
           /\ title[1] = BaseTitle
           /\ Given(id) => title[2].label = "Stream ID: " /\ title[2].value = id.v
           /\ Given(area) =>
                 title[n].label = "Upstream Drainage Area: " /\ title[n].value = area.v

(***************************************************************************)
(* Properties of the failures of the chart entry points.                   *)
(***************************************************************************)
StatsColumns == {MEAN, MAXCOL, MINCOL, STDLOW, STDUP, HIGHRES}

RperiodsColumns == {RP2, RP10, RP20}

MemberColumns == {EnsembleName(i) : i \in 1..52}

\* Table df lacks one of the columns.
Lacks(df, columns) == \E c \in columns : c \notin DOMAIN df.cols

\* The table arguments of the call made are all tables.
AllTables ==
    CASE call = "hydroviewer_plot" ->
           IsDataFrame(args.records) /\ IsDataFrame(args.stats) /\ IsDataFrame(args.rperiods)
      [] call = "forecast_plot" -> IsDataFrame(args.stats) /\ IsDataFrame(args.rperiods)
      [] call = "record_plot" -> IsDataFrame(args.records) /\ IsDataFrame(args.rperiods)
      [] call = "ensembles_plot" -> IsDataFrame(args.ensembles) /\ IsDataFrame(args.rperiods)
      [] call = "historical_plot" -> IsDataFrame(args.hist) /\ IsDataFrame(args.rperiods)
      [] call = "seasonal_plot" -> IsDataFrame(args.seasonal)
      [] call = "flow_duration_curve_plot" -> IsDataFrame(args.hist)

\* A table of the call made lacks a column that its chart type names.
ColumnAbsent ==
    CASE call = "hydroviewer_plot" ->
           \/ Lacks(args.records, {STREAMFLOW})
           \/ Lacks(args.stats, StatsColumns)
           \/ Lacks(args.rperiods, RperiodsColumns)
      [] call = "forecast_plot" ->
           Lacks(args.stats, StatsColumns) \/ Lacks(args.rperiods, RperiodsColumns)
      [] call = "record_plot" ->
           Lacks(args.records, {STREAMFLOW}) \/ Lacks(args.rperiods, RperiodsColumns)
      [] call = "ensembles_plot" ->
           Lacks(args.ensembles, MemberColumns) \/ Lacks(args.rperiods, RperiodsColumns)
      [] call = "historical_plot" ->
           Lacks(args.hist, {STREAMFLOW}) \/ Lacks(args.rperiods, RperiodsColumns)
      [] call = "seasonal_plot" -> Lacks(args.seasonal, {STREAMFLOW, MAX_FLOW, MIN_FLOW})
      [] call = "flow_duration_curve_plot" -> Lacks(args.hist, {STREAMFLOW})

\* C14: a call on tables one of which lacks a column the chart type names
\* fails with the missing-column error and returns nothing, in every output
\* mode; so does the ensembles view when a member column of 1..52 is absent.
C14_AbsentColumnFails ==
    (/\ call \in ChartCalls /\ Binds /\ args.kwargs.outformat \in OutFormats
     /\ AllTables /\ ColumnAbsent) =>
        /\ raised.type = "KeyError"
        /\ returned = NoValue

\* C15: a call one of whose table arguments is not a table fails with the
\* type error 'Sorry, I only process pandas dataframes right now'.
C15_EveryTableArgumentChecked ==
    (call \in ChartCalls /\ Binds /\ ~AllTables) => raised = ValueError(NotDataFrameMsg)

(***************************************************************************)
(* Properties of the ensembles view.                                       *)
(***************************************************************************)
\* The non-missing values of the column named for index i.
MemberValues(i) == DropNa(args.ensembles.cols[EnsembleName(i)])

\* An ensembles_plot call in 'json' mode on a table holding the 52 columns
\* of the naming convention, with a complete return-periods table.
ConventionalEnsembles ==
    /\ call = "ensembles_plot"
    /\ args.kwargs.outformat = "json"
    /\ AllTables
    /\ ~ColumnAbsent

\* C16: on a table whose columns follow the naming convention for 1..52 the
\* dictionary holds, under each integer key i, the non-missing values of the
\* column named for i, and y_max is the largest of all those values.
C16_MembersUnderTheirIndex ==
    ConventionalEnsembles =>
        /\ raised = NoError
        /\ DOMAIN returned.members = 1..52
        /\ \A i \in 1..52 : returned.members[i] = MemberValues(i)
        /\ \A i \in 1..52 : \A k \in 1..Len(MemberValues(i)) :
              MemberValues(i)[k] <= returned.y_max
        /\ \E i \in 1..52 : \E k \in 1..Len(MemberValues(i)) :
              MemberValues(i)[k] = returned.y_max

\* Members 1 and 52 differ in their values and a member has a missing row.
C16_Witness ==
    /\ ConventionalEnsembles
    /\ raised = NoError
    /\ Len(args.ensembles.index) = 2
    /\ returned.members[1] = <<5, 5>>
    /\ returned.members[17] = <<15>>
    /\ returned.members[52] = <<TopFlow>>
    /\ returned.y_max = TopFlow

(***************************************************************************)
(* Properties of the transport.                                            *)
(***************************************************************************)
SupportedFormats == {"csv", "json", "waterml", "request", "url"}

\* The call made sent an HTTP GET.
RequestSent == \E i \in 1..Len(trace) : trace[i].op = "GET"

\* C17: a call of _make_request with a return format outside csv, json,
\* waterml, request and url fails with the unsupported-format error, and no
\* HTTP GET is sent in that call.
C17_UnsupportedFormatFailsBeforeRequest ==
    (call = "_make_request" /\ args.return_format \notin SupportedFormats) =>
        /\ raised = ValueError("Unsupported return format requested: " \o args.return_format)
        /\ ~RequestSent

(***************************************************************************)
(* Properties of the exceedance table fed by the parser.                   *)
(***************************************************************************)
\* The stats table has its timestamps as its index and no 'datetime' column,
\* as the parser makes it, and the thresholds table has the four rows read.
ParserFormStats ==
    /\ call = "probabilities_table"
    /\ IsDataFrame(args.stats)
    /\ args.stats \in ParsedStatsTables
    /\ ~ILocFails(args.rperiods, 3)

\* C18: given the stats table as forecast_stats returns it in 'csv' mode,
\* probabilities_table does not fail and produces a table whose first day is
\* the day of the first timestamp of the index.
C18_AcceptsParsedStats ==
    ParserFormStats =>
        /\ raised = NoError
        /\ Len(returned.days) >= 1
        /\ returned.days[1] = DayLabel(args.stats.index[1])

(***************************************************************************)
(* Properties of the time range of the bands.                              *)
(***************************************************************************)
BandedCalls == {"hydroviewer_plot", "forecast_plot", "record_plot", "ensembles_plot",
                "historical_plot"}

StrictlyIncreasing(idx) == \A i \in 1..(Len(idx) - 1) : idx[i] < idx[i + 1]

\* The figure of a call that made one.
ReturnedFigure == IF args.kwargs.outformat = "plotly" THEN returned ELSE returned.div

\* A banded view made a figure from tables of strictly increasing indices.
BandsDrawn ==
    /\ call \in BandedCalls
    /\ raised = NoError
    /\ args.kwargs.outformat \in {"plotly", "plotly_html"}
    /\ StrictlyIncreasing(FirstArgument.index)
    /\ call = "hydroviewer_plot" => StrictlyIncreasing(args.stats.index)

\* The first and last timestamp the bands of the call are to span.
SpanStart ==
    IF call = "hydroviewer_plot"
    THEN IF args.records.index[1] <= args.stats.index[1]
         THEN args.records.index[1] ELSE args.stats.index[1]
    ELSE FirstArgument.index[1]

SpanEnd ==
    LET last(idx) == idx[Len(idx)]
    IN IF call = "hydroviewer_plot"
       THEN IF last(args.records.index) >= last(args.stats.index)
            THEN last(args.records.index) ELSE last(args.stats.index)
       ELSE last(FirstArgument.index)

\* C19: the three bands of the hydroviewer view span from the earlier of the
\* two tables' first timestamps to the later of their last timestamps, the
\* bands of the other banded views from the first to the last timestamp of
\* the plotted table, and every timestamp of every plotted series lies
\* within the bands' range.
C19_BandsSpanEverySeries ==
    BandsDrawn =>
        LET shapes == ReturnedFigure.layout.shapes
            data == ReturnedFigure.data
        IN /\ Len(shapes) = 3
           /\ \A b \in 1..3 : shapes[b].x0 = SpanStart /\ shapes[b].x1 = SpanEnd
           /\ \A s \in 1..Len(data) : \A k \in 1..Len(data[s].x) :
                 SpanStart <= data[s].x[k] /\ data[s].x[k] <= SpanEnd

\* The hydroviewer view drew records that end before the statistics begin.
C19_Witness ==
    /\ BandsDrawn
    /\ call = "hydroviewer_plot"
    /\ args.records.index = <<0, 1>>
    /\ args.stats.index[1] = MaxTime
    /\ Len(args.stats.index) = 2
    /\ ReturnedFigure.layout.shapes[1].x0 = 0
    /\ ReturnedFigure.layout.shapes[3].x1 = MaxTime + 1

(***************************************************************************)
(* Properties of the sub-windows of the exceedance table.                  *)
(***************************************************************************)
\* The rows of the ensemble table in the sub-window of day i of the table.
Window(i) ==
    LocRows(args.ensembles, FirstHour + 24 * (i - 1), FirstHour + 24 * i)

\* The rows in which some member is above the 2-year threshold.
ExceedingRows ==
    {r \in 1..Len(args.ensembles.index) :
       \E c \in DOMAIN args.ensembles.cols : Gt(args.ensembles.cols[c][r], Threshold2)}

\* C20: a row of the ensemble table is in the sub-window of one day at most,
\* the sub-windows of two consecutive days sharing no row; so when all the
\* values above the 2-year threshold are in one row, one day at most has a
\* 2-year percentage above 0.
C20_EachRowInOneWindow ==
    TableBuilt =>
        /\ \A i \in 1..(Len(returned.days) - 1) : Window(i) \cap Window(i + 1) = {}
        /\ Cardinality(ExceedingRows) = 1 =>
              Cardinality({i \in 1..Len(returned.r2) : returned.r2[i] > 0}) <= 1

(***************************************************************************)
(* Properties of the percentages of the exceedance table.                  *)
(***************************************************************************)
IsPercentage(q) == q \in 0..100

\* C21: every percentage of the exceedance table is an integer from 0 to
\* 100, whatever the number of member columns of the ensemble table.
C21_PercentagesWithinHundred ==
    TableBuilt =>
        \A i \in 1..Len(returned.days) :
           /\ IsPercentage(returned.r2[i])
           /\ IsPercentage(returned.r10[i])
           /\ IsPercentage(returned.r20[i])

(***************************************************************************)
(* Properties of the thresholds of the exceedance table.                   *)
(***************************************************************************)
\* The statistics table of the call made has a 'datetime' column whose first
\* and last entries parse.
StatsUsable ==
    /\ IsDataFrame(args.stats)
    /\ HasCol(args.stats, DATETIME)
    /\ Len(args.stats.cols[DATETIME]) > 0
    /\ Strptime(args.stats.cols[DATETIME][1]).ok
    /\ Strptime(args.stats.cols[DATETIME][Len(args.stats.cols[DATETIME])]).ok

\* The return-period table of the call made is as the parser returns it: one
\* row for the stream, with the three named columns.
ParserFormRperiods ==
    /\ call = "probabilities_table"
    /\ StatsUsable
    /\ IsDataFrame(args.rperiods)
    /\ Len(args.rperiods.index) = 1
    /\ {RP2, RP10, RP20} \subseteq DOMAIN args.rperiods.cols

\* The value the chart entry points read from the named column.
NamedThreshold(column) == args.rperiods.cols[column][1]

\* The members with a value above the threshold in the sub-window of row i.
Exceeding(i, threshold) ==
    {c \in DOMAIN args.ensembles.cols : MemberExceeds(c, i, threshold)}

\* C22: given the return-period table as the parser returns it, the
\* exceedance table is built, and its percentages are those of the
\* thresholds the chart entry points read from the columns return_period_2,
\* return_period_10 and return_period_20.
C22_SameThresholdsAsCharts ==
    ParserFormRperiods =>
        /\ raised = NoError
        /\ \A i \in 1..Len(returned.days) :
              /\ IsRounded(returned.r20[i],
                           Cardinality(Exceeding(i, NamedThreshold(RP20))))
              /\ IsRounded(returned.r10[i],
                           Cardinality(Exceeding(i, NamedThreshold(RP10))
                                       \cup Exceeding(i, NamedThreshold(RP20))))
              /\ IsRounded(returned.r2[i],
                           Cardinality(Exceeding(i, NamedThreshold(RP2))
                                       \cup Exceeding(i, NamedThreshold(RP10))
                                       \cup Exceeding(i, NamedThreshold(RP20))))

(***************************************************************************)
(* Properties of the 'request' return format.                              *)
(***************************************************************************)
\* C23: a call of _make_request with return_format 'request' sends one GET
\* whose query parameters carry return_format 'csv', and returns the raw
\* response, unparsed.
C23_RequestFormatSendsCsv ==
    (call = "_make_request" /\ args.return_format = "request") =>
        /\ raised = NoError
        /\ returned = [type |-> "Response", text |-> args.text]
        /\ Len(trace) = 1
        /\ trace[1].op = "GET"
        /\ trace[1].params.return_format = "csv"

====
